---- MODULE Spec2Model ----
(***************************************************************************)
(* apeye: pathlib-like URLs (apeye/_url.py), the Requests-backed subclass  *)
(* (apeye/requests_url.py) and the Slumber-backed subclass                 *)
(* (apeye/slumber_url.py).                                                 *)
(*                                                                         *)
(* A Python str is a sequence of one-character strings, so that parsing,   *)
(* rendering and joining are computed character by character as urllib    *)
(* and pathlib compute them.                                               *)
(***************************************************************************)
EXTENDS Integers, Sequences, FiniteSets, TLC

\* ------------------------------------------------------------------ bounds
\* longest string handed to a constructor in ParseSpec
MaxLen == 4
\* longest string handed to the second constructor of a pair in ParseSpec
MaxLen2 == 1
\* objects the caller holds at once
MaxObjs == 3
\* longest path (in segments) a derived URL may have in Spec
MaxSegs == 3
\* width of the modelled hash value
HashMod == 65536
\* request settings the caller reassigns in SlumberSpec
MaxSets == 2
\* the clock stops at MaxTime (in ticks) in RateSpec
MaxTime == 9
\* invocations of the rate-limited function in RateSpec
MaxCalls == 3
\* the minimum interval of the rate-limited function, in ticks
MinTime == 3
\* most dot-separated labels of a Domain's domain in DomainSpec
MaxOctets == 5

\* ------------------------------------------------------------- characters
Letters == {"a", "b", "h", "s", "x"}
SchemeChars == Letters \cup {"."}
\* the characters of the exhaustively enumerated constructor arguments
Chars == {"a", "/", ":", "?", "#", "."}

Strings(n) == UNION {[1..k -> Chars] : k \in 0..n}

Code(c) ==
  CASE c = "a" -> 97
    [] c = "b" -> 98
    [] c = "h" -> 104
    [] c = "s" -> 115
    [] c = "x" -> 120
    [] c = "/" -> 47
    [] c = ":" -> 58
    [] c = "?" -> 63
    [] c = "#" -> 35
    [] c = "." -> 46
    [] OTHER -> 1

\* str.find over a set of characters, 1-based, 0 when absent
IndexOf(s, C, from) ==
  LET I == {i \in from..Len(s) : s[i] \in C}
  IN IF I = {} THEN 0 ELSE CHOOSE i \in I : \A j \in I : i <= j

\* str.rfind of one character, 1-based, 0 when absent
RIndexOf(s, c) ==
  LET I == {i \in 1..Len(s) : s[i] = c}
  IN IF I = {} THEN 0 ELSE CHOOSE i \in I : \A j \in I : i >= j

StartsWith(s, p) == Len(s) >= Len(p) /\ SubSeq(s, 1, Len(p)) = p

EndsWith(s, p) == Len(s) >= Len(p) /\ SubSeq(s, Len(s) - Len(p) + 1, Len(s)) = p

Tail_(s, i) == SubSeq(s, i, Len(s))

\* a local variable: v is computed once and F is the code that uses it
Let(v, F(_)) == F(v)

\* ------------------------------------------------------- urllib.parse
\* urlsplit's scheme test: a ':' not in first place, the first character a
\* letter, every character before the ':' a scheme character
SchemeEnd(url) ==
  LET i == IndexOf(url, {":"}, 1)
  IN IF i > 1 /\ url[1] \in Letters /\ (\A k \in 1..(i - 1) : url[k] \in SchemeChars)
       THEN i ELSE 0

\* _splitnetloc: the netloc ends at the first of "/", "?", "#" after the "//"
NetlocEnd(u) ==
  Let(IndexOf(u, {"/", "?", "#"}, 3), LAMBDA d : IF d = 0 THEN Len(u) + 1 ELSE d)

\* the scheme, and what follows its ":"
SplitScheme(url) ==
  Let(SchemeEnd(url), LAMBDA se :
    [scheme |-> IF se > 0 THEN SubSeq(url, 1, se - 1) ELSE <<>>,
     rest |-> IF se > 0 THEN Tail_(url, se + 1) ELSE url])

\* the netloc of what follows the scheme, and what follows the netloc
SplitNetloc(u) ==
  IF StartsWith(u, <<"/", "/">>)
    THEN Let(NetlocEnd(u), LAMBDA delim :
           [netloc |-> SubSeq(u, 3, delim - 1), rest |-> Tail_(u, delim)])
    ELSE [netloc |-> <<>>, rest |-> u]

\* s.split(c, 1): what precedes the first c and what follows it
SplitAt(s, c) ==
  Let(IndexOf(s, {c}, 1), LAMBDA i :
    [head |-> IF i > 0 THEN SubSeq(s, 1, i - 1) ELSE s,
     tail |-> IF i > 0 THEN Tail_(s, i + 1) ELSE <<>>])

\* urlparse(url), for a url without ";" parameters: the scheme, then the
\* netloc, then the fragment, then the query are split off
urlparse(url) ==
  Let(SplitScheme(url), LAMBDA s :
    Let(SplitNetloc(s.rest), LAMBDA n :
      Let(SplitAt(n.rest, "#"), LAMBDA f :
        Let(SplitAt(f.head, "?"), LAMBDA q :
          [scheme |-> s.scheme, netloc |-> n.netloc, path |-> q.head,
           query |-> q.tail, fragment |-> f.tail]))))

\* ------------------------------------------------------------- pathlib
\* str.split("/")
RECURSIVE SplitSlash(_)
SplitSlash(s) ==
  LET i == IndexOf(s, {"/"}, 1)
  IN IF i = 0 THEN <<s>>
     ELSE <<SubSeq(s, 1, i - 1)>> \o SplitSlash(Tail_(s, i + 1))

\* "/".join(parts)
RECURSIVE JoinSlash(_)
JoinSlash(parts) ==
  IF parts = <<>> THEN <<>>
  ELSE IF Len(parts) = 1 THEN parts[1]
  ELSE parts[1] \o <<"/">> \o JoinSlash(Tail(parts))

RECURSIVE LeadingSlashes(_)
LeadingSlashes(s) ==
  IF s # <<>> /\ s[1] = "/" THEN 1 + LeadingSlashes(Tail(s)) ELSE 0

\* _PosixFlavour.splitroot: exactly two leading slashes give the root "//"
splitroot(part) ==
  LET n == LeadingSlashes(part)
  IN [root |-> IF n = 0 THEN <<>> ELSE IF n = 2 THEN <<"/", "/">> ELSE <<"/">>,
      rel |-> Tail_(part, n + 1)]

\* _Flavour.parse_parts on one string: empty and "." components are dropped
parse_parts(s) ==
  Let(splitroot(s), LAMBDA sr :
    [root |-> sr.root,
     segs |-> SelectSeq(SplitSlash(sr.rel), LAMBDA x : x # <<>> /\ x # <<".">>)])

\* URLPath(s): a path is its root and its segments (pathlib's _parts is the
\* root, when there is one, followed by the segments)
URLPath(s) == parse_parts(s)

EmptyPath == [root |-> <<>>, segs |-> <<>>]

\* URLPath._format_parsed_parts / URLPath.__str__
URLPath_str(p) == p.root \o JoinSlash(p.segs)

\* as join_parsed_parts would be if an anchored second path did not win
join_parsed_parts_append(p, k) == [root |-> p.root, segs |-> p.segs \o k.segs]

\* _Flavour.join_parsed_parts: an anchored second path wins
join_parsed_parts(p, k) ==
  IF k.root # <<>> THEN k
  ELSE [root |-> p.root, segs |-> p.segs \o k.segs]

\* PurePath.name
Path_name(p) == IF p.segs = <<>> THEN <<>> ELSE p.segs[Len(p.segs)]

\* PurePath.suffix
Path_suffix(p) ==
  LET name == Path_name(p)
      i == RIndexOf(name, ".")
  IN IF 1 < i /\ i < Len(name) THEN Tail_(name, i) ELSE <<>>

\* as PurePath.parent would be if it kept the last segment
Path_parent_same(p) == p

\* PurePath.parent
Path_parent(p) ==
  IF p.segs = <<>> THEN p
  ELSE [root |-> p.root, segs |-> SubSeq(p.segs, 1, Len(p.segs) - 1)]

\* PurePath.parents, nearest first
Path_parents(p) ==
  [i \in 1..Len(p.segs) |->
     [root |-> p.root, segs |-> SubSeq(p.segs, 1, Len(p.segs) - i)]]

\* what a call gives back: ret is "ok" or the exception raised (or
\* "NotImplemented"), val the value returned when ret is "ok"
Ok(v) == [ret |-> "ok", val |-> v]
Raise(e, v) == [ret |-> e, val |-> v]

\* repr() of a URLPath: URLPath('<str>')
URLPath_repr(p) == <<"URLPath", "(", "'">> \o URLPath_str(p) \o <<"'", ")">>

\* as PurePath.with_name would be if it did not look at the receiver's name
Path_with_name_unchecked(p, name) ==
  Let(parse_parts(name), LAMBDA k :
    IF name = <<>> \/ name[Len(name)] = "/" \/ k.root # <<>> \/ Len(k.segs) # 1
      THEN Raise("ValueError", [text |-> "Invalid name", repr |-> name])
    ELSE Ok([root |-> p.root, segs |-> SubSeq(p.segs, 1, Len(p.segs) - 1) \o <<name>>]))

\* PurePath.with_name; a ValueError carries its message, the text and the repr
\* it names
Path_with_name(p, name) ==
  Let(parse_parts(name), LAMBDA k :
    IF Path_name(p) = <<>> THEN Raise("ValueError", [text |-> "has an empty name", repr |-> URLPath_repr(p)])
    ELSE IF name = <<>> \/ name[Len(name)] = "/" \/ k.root # <<>> \/ Len(k.segs) # 1
      THEN Raise("ValueError", [text |-> "Invalid name", repr |-> name])
    ELSE Ok([root |-> p.root, segs |-> SubSeq(p.segs, 1, Len(p.segs) - 1) \o <<name>>]))

\* PurePath.with_suffix
Path_with_suffix(p, suffix) ==
  Let(Path_name(p), LAMBDA name :
    Let(Path_suffix(p), LAMBDA old :
      IF IndexOf(suffix, {"/"}, 1) > 0 THEN Raise("ValueError", p)
      ELSE IF (suffix # <<>> /\ suffix[1] # ".") \/ suffix = <<".">>
        THEN Raise("ValueError", p)
      ELSE IF name = <<>> THEN Raise("ValueError", p)
      ELSE Ok([root |-> p.root,
               segs |-> SubSeq(p.segs, 1, Len(p.segs) - 1)
                          \o <<SubSeq(name, 1, Len(name) - Len(old)) \o suffix>>])))

\* ---------------------------------------------------------------- objects
Classes == {"URL", "RequestsURL", "TrailingRequestsURL", "SlumberURL"}

\* the classes whose instances carry a .session attribute
RequestsClasses == {"RequestsURL", "TrailingRequestsURL"}

\* an attribute the instance does not have
NoSession == 0
NoStore == [format |-> "", append_slash |-> FALSE, session |-> NoSession,
            serializer |-> ""]
NoAttr == "absent"
\* no response held (the attribute "_" is not set)
NoResponse == [status_code |-> 0, content |-> ""]

\* URL.__init__: query and fragment (the "*_" of the unpacking) are dropped
URL_init(url) ==
  Let(urlparse(url), LAMBDA p1 :
    Let(IF p1.scheme = <<>> /\ ~StartsWith(url, <<"/", "/">>)
          THEN urlparse(<<"/", "/">> \o url) ELSE p1,
        LAMBDA p :
          [scheme |-> p.scheme, netloc |-> p.netloc, path |-> URLPath(p.path)]))

\* SlumberURL.__init__ with no auth, session or serializer given: a new
\* session and a SerializerRegistry whose default is the format, both kept
\* in _store, and the five request settings at their defaults
SlumberURL_init(url, format, append_slash, sid) ==
  Let(URL_init(url), LAMBDA f :
    [cls |-> "SlumberURL", scheme |-> f.scheme, netloc |-> f.netloc, path |-> f.path,
     session |-> NoSession,
     store |-> [format |-> format, append_slash |-> append_slash, session |-> sid,
                serializer |-> format],
     timeout |-> "None", allow_redirects |-> "True", proxies |-> "None",
     verify |-> "None", cert |-> "None", last_resp |-> NoResponse,
     alive |-> TRUE])

\* cls(url): URL.__init__, RequestsURL.__init__ (a new requests.Session) or
\* SlumberURL.__init__ with its default arguments (a new session in _store);
\* sid is the identity of the session the constructor creates
Construct(cls, url, sid) ==
  IF cls = "SlumberURL" THEN SlumberURL_init(url, "json", TRUE, sid)
  ELSE Let(URL_init(url), LAMBDA f :
    [cls |-> cls, scheme |-> f.scheme, netloc |-> f.netloc, path |-> f.path,
     session |-> IF cls \in RequestsClasses THEN sid ELSE NoSession,
     store |-> NoStore,
     timeout |-> NoAttr, allow_redirects |-> NoAttr, proxies |-> NoAttr,
     verify |-> NoAttr, cert |-> NoAttr, last_resp |-> NoResponse,
     alive |-> TRUE])

\* URLPath(p) for a path p: the parts of p are parsed again
URLPath_of(p) == parse_parts(URLPath_str(p))

\* as the root test of from_parts would be if the path were kept as given
rooted_as_given(path1) == path1

\* from_parts: the path is kept when its root is "/", and otherwise parsed
\* again behind a "/"
rooted(path1) ==
  IF path1.root = <<"/">> THEN path1
  ELSE URLPath(<<"/">> \o URLPath_str(path1))

\* as from_parts would be if it built a URL instead of a cls
from_parts_base(cls, scheme, netloc, path, sid) ==
  Let(URLPath_of(path), LAMBDA path1 :
    [cls |-> "URL", scheme |-> scheme, netloc |-> netloc,
     path |-> IF path1.root = <<"/">> THEN path1
              ELSE URLPath(<<"/">> \o URLPath_str(path1)),
     session |-> NoSession, store |-> NoStore,
     timeout |-> NoAttr, allow_redirects |-> NoAttr, proxies |-> NoAttr,
     verify |-> NoAttr, cert |-> NoAttr, last_resp |-> NoResponse,
     alive |-> TRUE])

\* URL.from_parts: cls('') and then the three assignments
from_parts(cls, scheme, netloc, path, sid) ==
  Let(URLPath_of(path), LAMBDA path1 :
    [Construct(cls, <<>>, sid) EXCEPT
       !.scheme = scheme, !.netloc = netloc, !.path = rooted(path1)])

\* URL.__str__ and TrailingRequestsURL.__str__
URL_str(u) ==
  LET base == IF u.scheme # <<>>
                THEN u.scheme \o <<":", "/", "/">> \o u.netloc \o URLPath_str(u.path)
                ELSE u.netloc \o URLPath_str(u.path)
  IN IF u.cls = "TrailingRequestsURL" THEN base \o <<"/">> ELSE base

\* URL.__fspath__
URL_fspath(u) == u.netloc \o URLPath_str(u.path)

\* as URL.__eq__ would be if it left the scheme out
URL_eq_no_scheme(a, b) == a.netloc = b.netloc /\ a.path = b.path

\* URL.__eq__ between two URL instances
URL_eq(a, b) == a.netloc = b.netloc /\ a.scheme = b.scheme /\ a.path = b.path

\* hash() of a str
RECURSIVE HashStr(_)
HashStr(s) ==
  IF s = <<>> THEN 7
  ELSE (HashStr(SubSeq(s, 1, Len(s) - 1)) * 31 + Code(s[Len(s)])) % HashMod

\* hash() of a tuple of already hashed items
RECURSIVE HashTuple(_)
HashTuple(hs) ==
  IF hs = <<>> THEN 11
  ELSE (HashTuple(SubSeq(hs, 1, Len(hs) - 1)) * 33 + hs[Len(hs)]) % HashMod

\* PurePath.__hash__: hash(tuple(self._cparts))
Path_hash(p) ==
  LET parts == (IF p.root = <<>> THEN <<>> ELSE <<p.root>>) \o p.segs
  IN HashTuple([i \in 1..Len(parts) |-> HashStr(parts[i])])

\* the session an instance holds, wherever its class keeps it
SessionOf(u) == IF u.cls = "SlumberURL" THEN u.store.session ELSE u.session

\* as URL.__hash__ would be if it hashed the session too
URL_hash_with_session(u) ==
  HashTuple(<<HashStr(u.scheme), HashStr(u.netloc), Path_hash(u.path), SessionOf(u)>>)

\* URL.__hash__
URL_hash(u) == HashTuple(<<HashStr(u.scheme), HashStr(u.netloc), Path_hash(u.path)>>)

\* ------------------------------------------------------------- operands
\* the str / os.PathLike operands, by the string os.fspath or str gives
StrKey(s) == [type |-> "str", val |-> s]
PurePathKey(s) == [type |-> "PurePosixPath", val |-> s]
URLPathKey(s) == [type |-> "URLPath", val |-> s]
URLKey(s) == [type |-> "URL", val |-> s]
PathLikeKey(s) == [type |-> "PathLike", val |-> s]
\* an int operand, by its decimal form str(n)
IntKey(s) == [type |-> "int", val |-> s]
\* operands of other types; only the type matters
OtherKey(ty) == [type |-> ty, val |-> <<>>]

PathTypes == {"PurePosixPath", "URLPath"}
FsPathTypes == {"str", "URL", "PathLike"}
OtherTypes == {"float", "bytes", "list", "tuple", "dict", "set", "function", "class"}

\* as _parse_args would be if it coerced every operand with str()
parse_arg_coerce(key) ==
  IF key.type = "URL"
    THEN Ok(parse_parts(URL_fspath(Construct("URL", key.val, NoSession))))
    ELSE Ok(parse_parts(key.val))

\* PurePath._parse_args on one argument: a path contributes its parts, a
\* str or os.PathLike its os.fspath(); anything else raises TypeError
parse_arg(key) ==
  IF key.type \in PathTypes THEN Ok(URLPath(key.val))
  ELSE IF key.type = "URL"
    THEN Ok(parse_parts(URL_fspath(Construct("URL", key.val, NoSession))))
  ELSE IF key.type \in FsPathTypes THEN Ok(parse_parts(key.val))
  ELSE Raise("TypeError", EmptyPath)

\* PurePath.__truediv__: NotImplemented on TypeError, which the operator
\* dispatch turns into TypeError again since no operand type here defines
\* __rtruediv__ for a URLPath
Path_truediv(p, key) ==
  Let(parse_arg(key), LAMBDA k :
    IF k.ret = "TypeError" THEN Raise("TypeError", p)
    ELSE Ok(join_parsed_parts(p, k.val)))

\* URL.__truediv__
URL_truediv(self, key, sid) ==
  Let(Path_truediv(self.path, key), LAMBDA p :
    IF p.ret = "TypeError" THEN Raise("NotImplemented", self)
    ELSE Ok(from_parts(self.cls, self.scheme, self.netloc, p.val, sid)))

\* as RequestsURL.__truediv__ would be without the session assignment
RequestsURL_truediv_fresh(self, key, sid) == URL_truediv(self, key, sid)

\* RequestsURL.__truediv__
RequestsURL_truediv(self, key, sid) ==
  Let(URL_truediv(self, key, sid), LAMBDA new_obj :
    IF new_obj.ret = "NotImplemented" THEN new_obj
    ELSE Ok([new_obj.val EXCEPT !.session = self.session]))

\* as SlumberURL.__truediv__ would be if it copied the _store only
SlumberURL_truediv_store_only(self, key, sid) ==
  Let(URL_truediv(self, key, sid), LAMBDA new_obj :
    IF new_obj.ret = "NotImplemented" THEN new_obj
    ELSE Ok([new_obj.val EXCEPT !.store = self.store]))

\* SlumberURL.__truediv__: copy.copy(self._store), a shallow copy that holds
\* the same session and serializer, and the five request settings
SlumberURL_truediv(self, key, sid) ==
  Let(URL_truediv(self, key, sid), LAMBDA new_obj :
    IF new_obj.ret = "NotImplemented" THEN new_obj
    ELSE Ok([new_obj.val EXCEPT !.store = self.store,
                                !.timeout = self.timeout,
                                !.allow_redirects = self.allow_redirects,
                                !.proxies = self.proxies,
                                !.verify = self.verify,
                                !.cert = self.cert]))

\* self / key, by the class of self
truediv(self, key, sid) ==
  IF self.cls \in RequestsClasses THEN RequestsURL_truediv(self, key, sid)
  ELSE IF self.cls = "SlumberURL" THEN SlumberURL_truediv(self, key, sid)
  ELSE URL_truediv(self, key, sid)

\* URL.parent
URL_parent(self, sid) ==
  Ok(from_parts(self.cls, self.scheme, self.netloc, Path_parent(self.path), sid))

\* URL.with_name
URL_with_name(self, name, sid) ==
  Let(Path_with_name(self.path, name), LAMBDA p :
    IF p.ret = "ValueError" THEN Raise("ValueError", p.val)
    ELSE Ok(from_parts(self.cls, self.scheme, self.netloc, p.val, sid)))

\* URL.with_suffix
URL_with_suffix(self, suffix, sid) ==
  Let(Path_with_suffix(self.path, suffix), LAMBDA p :
    IF p.ret = "ValueError" THEN Raise("ValueError", self)
    ELSE Ok(from_parts(self.cls, self.scheme, self.netloc, p.val, sid)))

\* left / url for a left operand that is no URL: a path takes the URL as an
\* os.PathLike and answers with a path of its own class; every other type
\* answers NotImplemented (or has no __truediv__), and URL defines no
\* __rtruediv__, so the operator raises TypeError
rtruediv(left, url) ==
  IF left.type \in PathTypes
    THEN Ok(join_parsed_parts(URLPath(left.val), parse_parts(URL_fspath(url))))
    ELSE Raise("TypeError", EmptyPath)

\* the attributes an instance has (its __dict__ and its class's members)
Attrs(u) ==
  {"scheme", "netloc", "path", "name", "suffix", "suffixes", "stem", "parts",
   "parent", "parents", "fqdn", "domain", "from_parts", "with_name", "with_suffix"}
    \cup (IF u.cls \in RequestsClasses
            THEN {"session", "resolve", "get", "options", "head", "post", "put",
                  "patch", "delete"}
            ELSE {})
    \cup (IF u.cls = "SlumberURL"
            THEN {"_store", "url", "serializer", "session", "timeout",
                  "allow_redirects", "proxies", "verify", "cert", "get", "post",
                  "patch", "put", "delete", "options", "head"}
            ELSE {})

\* getattr(u, name): whether the attribute lookup succeeds
getattr(u, name) == IF name \in Attrs(u) THEN "ok" ELSE "AttributeError"

\* --------------------------------------------------------------- Domain
DigitOf(c) ==
  CASE c = "0" -> 0 [] c = "1" -> 1 [] c = "2" -> 2 [] c = "3" -> 3 [] c = "4" -> 4
    [] c = "5" -> 5 [] c = "6" -> 6 [] c = "7" -> 7 [] c = "8" -> 8 [] c = "9" -> 9

\* int(s, 10) of a string of digits
RECURSIVE ToInt(_)
ToInt(s) ==
  IF s = <<>> THEN 0 ELSE 10 * ToInt(SubSeq(s, 1, Len(s) - 1)) + DigitOf(s[Len(s)])

\* s.isascii() and s.isdigit()
IsDigits(s) ==
  \A k \in 1..Len(s) : s[k] \in {"0", "1", "2", "3", "4", "5", "6", "7", "8", "9"}

\* str.split(".")
RECURSIVE SplitDot(_)
SplitDot(s) ==
  LET i == IndexOf(s, {"."}, 1)
  IN IF i = 0 THEN <<s>>
     ELSE <<SubSeq(s, 1, i - 1)>> \o SplitDot(Tail_(s, i + 1))

\* ".".join(parts)
RECURSIVE JoinDot(_)
JoinDot(parts) ==
  IF parts = <<>> THEN <<>>
  ELSE IF Len(parts) = 1 THEN parts[1]
  ELSE parts[1] \o <<".">> \o JoinDot(Tail(parts))

\* one octet of IP_RE: [0-9]|[1-9][0-9]|1[0-9]{2}|2[0-4][0-9]|25[0-5]
RE_octet(s) ==
  /\ IsDigits(s)
  /\ \/ Len(s) = 1
     \/ Len(s) = 2 /\ s[1] # "0"
     \/ Len(s) = 3 /\ s[1] = "1"
     \/ Len(s) = 3 /\ s[1] = "2" /\ s[2] \in {"0", "1", "2", "3", "4"}
     \/ Len(s) = 3 /\ s[1] = "2" /\ s[2] = "5" /\ s[3] \in {"0", "1", "2", "3", "4", "5"}

\* ^(octet\.){3}octet with nothing after it
RE_quad(s) ==
  LET parts == SplitDot(s)
  IN Len(parts) = 4 /\ \A k \in 1..4 : RE_octet(parts[k])

\* IP_RE.match(s): the pattern ends with $, which matches at the end of the
\* string and also just before a newline that ends the string
IP_RE_match(s) ==
  \/ RE_quad(s)
  \/ s # <<>> /\ s[Len(s)] = "\n" /\ RE_quad(SubSeq(s, 1, Len(s) - 1))

\* ipaddress.IPv4Address._parse_octet
parse_octet(s) ==
  IF s = <<>> THEN Raise("AddressValueError", 0)
  ELSE IF ~IsDigits(s) THEN Raise("AddressValueError", 0)
  ELSE IF Len(s) > 3 THEN Raise("AddressValueError", 0)
  ELSE IF s # <<"0">> /\ s[1] = "0" THEN Raise("AddressValueError", 0)
  ELSE IF ToInt(s) > 255 THEN Raise("AddressValueError", 0)
  ELSE Ok(ToInt(s))

NoAddress == <<>>

\* ipaddress.IPv4Address(s)
IPv4Address(s) ==
  LET octets == SplitDot(s)
  IN IF IndexOf(s, {"/"}, 1) > 0 THEN Raise("AddressValueError", NoAddress)
     ELSE IF Len(octets) # 4 THEN Raise("AddressValueError", NoAddress)
     ELSE IF \E k \in 1..4 : parse_octet(octets[k]).ret # "ok"
       THEN Raise("AddressValueError", NoAddress)
     ELSE Ok([k \in 1..4 |-> parse_octet(octets[k]).val])

\* ipaddress.ip_address(s): IPv4Address(s), else IPv6Address(s), which needs
\* at least two colons, else ValueError
ip_address(s) ==
  IF IPv4Address(s).ret = "ok" THEN IPv4Address(s)
  ELSE IF Cardinality({k \in 1..Len(s) : s[k] = ":"}) >= 2
    THEN Raise("unmodelled", NoAddress)
  ELSE Raise("ValueError", NoAddress)

\* Domain(subdomain, domain, suffix)
Domain(subdomain, domain, suffix) ==
  [subdomain |-> subdomain, domain |-> domain, suffix |-> suffix]

\* Domain.ipv4; None is NoAddress
Domain_ipv4(d) ==
  IF ~(d.suffix # <<>> \/ d.subdomain # <<>>) /\ IP_RE_match(d.domain)
    THEN ip_address(d.domain)
    ELSE Ok(NoAddress)

\* ------------------------------------------------------------------ state
VARIABLES
  heap,    \* the URL objects made so far, by identity (position)
  closed,  \* the sessions whose close() has run
  made,    \* for every object, how the caller obtained it
  last,    \* the most recent call: operation, receiver, operand, outcome
  limiter  \* the clock and the state of the one rate-limited function

vars == <<heap, closed, made, last, limiter>>

Ids == 1..Len(heap)
Alive == {i \in Ids : heap[i].alive}

\* identities of the session objects
SessionIds == 1..(MaxObjs + 1)

\* the sessions some live object holds
Referenced == {SessionOf(heap[i]) : i \in Alive} \ {NoSession}

\* requests.Session(): an object distinct from every session still held;
\* NthFree(k) is the k-th one a call creates
NthFree(k) ==
  LET F == SessionIds \ Referenced
  IN CHOOSE s \in F : Cardinality({t \in F : t < s}) = k - 1

FreshSession == NthFree(1)

NoKey == [type |-> "none", val |-> <<>>]

\* no exception object
NoExc == [response |-> NoResponse, content |-> ""]

\* no value worth recording
NoValue == <<>>

Call(op, self, key, ret, new) ==
  [op |-> op, self |-> self, key |-> key, ret |-> ret, new |-> new, exc |-> NoExc,
   val |-> NoValue]

Made(by, qf) == [by |-> by, qf |-> qf]

\* the argument carries a query or a fragment
HasQF(s) == IndexOf(s, {"?", "#"}, 1) > 0

\* the timestamp of a function that was never called
NoTime == -1

Init ==
  /\ heap = <<>>
  /\ closed = {}
  /\ made = <<>>
  /\ last = Call("none", 0, NoKey, "ok", <<>>)
  /\ limiter = [now |-> 0, last_time_called |-> NoTime, pc |-> "idle", wake |-> 0,
                through |-> <<>>, waited |-> <<>>, invoked |-> 0, returned |-> 0]

\* the caller's script goes on until it has made MaxObjs objects
Running == Len(heap) < MaxObjs

\* obj = cls(s)
NewFrom(cls, s) ==
  /\ Running
  /\ heap' = Append(heap, Construct(cls, s, FreshSession))
  /\ closed' = IF cls = "URL" THEN closed ELSE closed \ {FreshSession}
  /\ made' = Append(made, Made("init", HasQF(s)))
  /\ UNCHANGED limiter
  /\ last' = Call("init", 0, NoKey, "ok", <<Len(heap) + 1>>)

\* as the outcome of a derivation would be if from_parts filled in the
\* receiver before copying it
Returns_in_place(op, i, key, r) ==
  /\ r.ret = "ok" => Len(r.val.path.segs) <= MaxSegs
  /\ heap' = IF r.ret = "ok"
               THEN Append([heap EXCEPT ![i].path = r.val.path], r.val) ELSE heap
  /\ made' = IF r.ret = "ok" THEN Append(made, Made(op, FALSE)) ELSE made
  /\ UNCHANGED limiter
  /\ last' = [Call(op, i, key,
                   IF r.ret = "NotImplemented" THEN "TypeError" ELSE r.ret,
                   IF r.ret = "ok" THEN <<Len(heap) + 1>> ELSE <<>>)
                EXCEPT !.val = IF r.ret = "ok" THEN NoValue ELSE r.val]
  /\ UNCHANGED closed

\* the outcome of a call that returns one new URL or raises; the caller's
\* script makes no URL of more than MaxSegs segments
Returns(op, i, key, r) ==
  /\ r.ret = "ok" => Len(r.val.path.segs) <= MaxSegs
  /\ heap' = IF r.ret = "ok" THEN Append(heap, r.val) ELSE heap
  /\ made' = IF r.ret = "ok" THEN Append(made, Made(op, FALSE)) ELSE made
  /\ UNCHANGED limiter
  /\ last' = [Call(op, i, key,
                   IF r.ret = "NotImplemented" THEN "TypeError" ELSE r.ret,
                   IF r.ret = "ok" THEN <<Len(heap) + 1>> ELSE <<>>)
                EXCEPT !.val = IF r.ret = "ok" THEN NoValue ELSE r.val]
  /\ UNCHANGED closed

\* obj = cls.from_parts(scheme, netloc, path), path a str
FromParts(cls, scheme, netloc, path) ==
  /\ Running
  /\ heap' = Append(heap, from_parts(cls, scheme, netloc, parse_parts(path), FreshSession))
  /\ closed' = IF cls = "URL" THEN closed ELSE closed \ {FreshSession}
  /\ made' = Append(made, Made("from_parts", FALSE))
  /\ UNCHANGED limiter
  /\ last' = Call("from_parts", 0, StrKey(path), "ok", <<Len(heap) + 1>>)

\* heap[i] / key
Div(i, key) ==
  /\ i \in Alive
  /\ Running
  /\ Returns("truediv", i, key, truediv(heap[i], key, FreshSession))

\* left / heap[i]: never a URL
RDiv(left, i) ==
  /\ i \in Alive
  /\ Running
  /\ UNCHANGED limiter
  /\ last' = Call("rtruediv", i, left, rtruediv(left, heap[i]).ret, <<>>)
  /\ UNCHANGED <<heap, closed, made>>

\* cls(str(heap[i])): the rendering of heap[i] is parsed again
Reparse(i) ==
  /\ i \in Alive
  /\ Running
  /\ heap' = Append(heap, Construct(heap[i].cls, URL_str(heap[i]), FreshSession))
  /\ closed' = IF heap[i].cls = "URL" THEN closed ELSE closed \ {FreshSession}
  /\ made' = Append(made, Made("init", FALSE))
  /\ UNCHANGED limiter
  /\ last' = Call("reparse", i, NoKey, "ok", <<Len(heap) + 1>>)

\* str(heap[i])
Str(i) ==
  /\ i \in Alive
  /\ Running
  /\ UNCHANGED limiter
  /\ last' = Call("str", i, StrKey(URL_str(heap[i])), "ok", <<>>)
  /\ UNCHANGED <<heap, closed, made>>

\* heap[i].domain: tldextract.extract(self.netloc), wrapped in a Domain
GetDomain(i) ==
  /\ i \in Alive
  /\ Running
  /\ UNCHANGED limiter
  /\ last' = Call("domain", i, StrKey(heap[i].netloc), "ok", <<>>)
  /\ UNCHANGED <<heap, closed, made>>

\* heap[i].parent
Parent(i) ==
  /\ i \in Alive
  /\ Running
  /\ Returns("parent", i, NoKey, URL_parent(heap[i], FreshSession))

\* heap[i].with_name(name)
WithName(i, name) ==
  /\ i \in Alive
  /\ Running
  /\ Returns("with_name", i, StrKey(name), URL_with_name(heap[i], name, FreshSession))

\* heap[i].with_suffix(suffix)
WithSuffix(i, suffix) ==
  /\ i \in Alive
  /\ Running
  /\ Returns("with_suffix", i, StrKey(suffix), URL_with_suffix(heap[i], suffix, FreshSession))

\* heap[i].parents: one from_parts per ancestor path, nearest first
Parents(i) ==
  /\ i \in Alive
  /\ Running
  /\ LET u == heap[i]
         ps == Path_parents(u.path)
         n == Len(ps)
     IN /\ Len(heap) + n <= MaxObjs
        /\ heap' = heap \o [k \in 1..n |->
                              from_parts(u.cls, u.scheme, u.netloc, ps[k], NthFree(k))]
        /\ made' = made \o [k \in 1..n |-> Made("parents", FALSE)]
        /\ UNCHANGED limiter
        /\ last' = Call("parents", i, NoKey, "ok", [k \in 1..n |-> Len(heap) + k])
  /\ UNCHANGED closed

\* heap[i].session = requests.Session(): the caller replaces the session of
\* a URL it constructed
SetSession(i) ==
  /\ i \in Alive
  /\ Running
  /\ made[i].by = "init"
  /\ heap[i].cls \in RequestsClasses
  /\ LET sid == FreshSession
         h == [heap EXCEPT ![i].session = sid]
     IN /\ heap' = h
        /\ closed' = {s \in closed \ {sid} :
                        \E j \in Alive : SessionOf(h[j]) = s}
  /\ UNCHANGED limiter
  /\ last' = Call("set_session", i, NoKey, "ok", <<>>)
  /\ UNCHANGED made

\* heap[i].path = URLPath(s): the caller overwrites the path of a URL it
\* constructed
SetPath(i, s) ==
  /\ i \in Alive
  /\ Running
  /\ made[i].by = "init"
  /\ heap' = [heap EXCEPT ![i].path = URLPath(s)]
  /\ UNCHANGED limiter
  /\ last' = Call("set_path", i, StrKey(s), "ok", <<>>)
  /\ UNCHANGED <<closed, made>>

\* the classes an exception of class c is an instance of
ExcBases(c) ==
  CASE c = "HttpNotFoundError" ->
         {"HttpNotFoundError", "HttpClientError", "SlumberHttpBaseException"}
    [] c = "HttpClientError" -> {"HttpClientError", "SlumberHttpBaseException"}
    [] c = "HttpServerError" -> {"HttpServerError", "SlumberHttpBaseException"}
    [] OTHER -> {}

\* as _request would be if it translated no status
SlumberURL_request_plain(resp) == Ok(resp)

\* SlumberURL._request, given the response the session answers with: the
\* exception is built with response=resp and content=resp.content
SlumberURL_request(resp) ==
  IF 400 <= resp.status_code /\ resp.status_code <= 499
    THEN Raise(IF resp.status_code = 404 THEN "HttpNotFoundError" ELSE "HttpClientError",
               [response |-> resp, content |-> resp.content])
  ELSE IF 500 <= resp.status_code /\ resp.status_code <= 599
    THEN Raise("HttpServerError", [response |-> resp, content |-> resp.content])
  ELSE Ok(resp)

\* as SlumberURL.url would be if it did not look at the end of the string
SlumberURL_url_append(u) ==
  IF u.store.append_slash THEN URL_str(u) \o <<"/">> ELSE URL_str(u)

\* SlumberURL.url
SlumberURL_url(u) ==
  IF u.store.append_slash /\ ~EndsWith(URL_str(u), <<"/">>)
    THEN URL_str(u) \o <<"/">> ELSE URL_str(u)

\* the verbs that go through _request, and those sent on the session directly
RequestMethods == {"get", "post", "patch", "put", "delete"}
SessionMethods == {"options", "head"}

\* the outcome r of _request in heap[i].<method>(), sent to self.url()
Requested(i, method, resp, r) ==
  /\ heap' = IF r.ret = "ok" THEN [heap EXCEPT ![i].last_resp = resp] ELSE heap
  /\ UNCHANGED limiter
  /\ last' = [Call(method, i, [type |-> "response", val |-> resp], r.ret, <<>>)
                EXCEPT !.exc = IF r.ret = "ok" THEN NoExc ELSE r.val,
                       !.val = SlumberURL_url(heap[i])]

\* heap[i].<method>(), the session answering with resp: get, post, patch, put
\* and delete call _request, which keeps a response it returns in self._;
\* options and head return what the session gives them for str(self)
Request(i, method, resp) ==
  /\ i \in Alive
  /\ heap[i].cls = "SlumberURL"
  /\ IF method \in SessionMethods
       THEN /\ last' = [Call(method, i, [type |-> "response", val |-> resp], "ok", <<>>)
                          EXCEPT !.val = URL_str(heap[i])]
            /\ UNCHANGED <<heap, limiter>>
       ELSE Requested(i, method, resp, SlumberURL_request(resp))
  /\ UNCHANGED <<closed, made>>

\* the request settings of a SlumberURL
Settings == {"timeout", "allow_redirects", "proxies", "verify", "cert"}

\* u.<name> for a request setting
Setting(u, name) ==
  CASE name = "timeout" -> u.timeout
    [] name = "allow_redirects" -> u.allow_redirects
    [] name = "proxies" -> u.proxies
    [] name = "verify" -> u.verify
    [] name = "cert" -> u.cert

\* u after u.<name> = v
WithSetting(u, name, v) ==
  CASE name = "timeout" -> [u EXCEPT !.timeout = v]
    [] name = "allow_redirects" -> [u EXCEPT !.allow_redirects = v]
    [] name = "proxies" -> [u EXCEPT !.proxies = v]
    [] name = "verify" -> [u EXCEPT !.verify = v]
    [] name = "cert" -> [u EXCEPT !.cert = v]

\* the value SlumberURL.__init__ gives a setting
DefaultSetting(name) == IF name = "allow_redirects" THEN "True" ELSE "None"

\* the value the caller assigns to a setting
NewSetting(name) ==
  CASE name = "timeout" -> "42"
    [] name = "allow_redirects" -> "False"
    [] name = "proxies" -> "proxies"
    [] name = "verify" -> "verify"
    [] name = "cert" -> "cert"

\* the settings reassigned so far
Reassigned ==
  {name \in Settings :
     \E i \in Ids : heap[i].cls = "SlumberURL"
                      /\ Setting(heap[i], name) # DefaultSetting(name)}

\* obj = SlumberURL(s, format=format, append_slash=append_slash)
NewSlumber(s, format, append_slash) ==
  /\ Running
  /\ heap' = Append(heap, SlumberURL_init(s, format, append_slash, FreshSession))
  /\ closed' = closed \ {FreshSession}
  /\ made' = Append(made, Made("init", HasQF(s)))
  /\ UNCHANGED limiter
  /\ last' = Call("init", 0, NoKey, "ok", <<Len(heap) + 1>>)

\* heap[i].<name> = value: the caller reassigns a request setting
SetAttr(i, name) ==
  /\ i \in Alive
  /\ Running
  /\ heap[i].cls = "SlumberURL"
  /\ Setting(heap[i], name) = DefaultSetting(name)
  /\ name \in Reassigned \/ Cardinality(Reassigned) < MaxSets
  /\ heap' = [heap EXCEPT ![i] = WithSetting(heap[i], name, NewSetting(name))]
  /\ UNCHANGED limiter
  /\ last' = Call("setattr", i, StrKey(<<>>), "ok", <<>>)
  /\ UNCHANGED <<closed, made>>

\* the last reference to heap[i] goes away: RequestsURL.__del__ and
\* SlumberURL.__del__ close the session the object holds
Del(i) ==
  /\ i \in Alive
  /\ Running
  /\ LET u == heap[i]
         h == [heap EXCEPT ![i].alive = FALSE]
         c == IF u.cls = "URL" THEN closed ELSE closed \cup {SessionOf(u)}
     IN /\ heap' = h
        /\ closed' = {s \in c : \E j \in Alive \ {i} : SessionOf(h[j]) = s}
  /\ UNCHANGED limiter
  /\ last' = Call("del", i, NoKey, "ok", <<>>)
  /\ UNCHANGED made

\* ------------------------------------------- ordering and absent methods
OrderOps == {"lt", "le", "gt", "ge"}

\* the operator Python tries on the right operand when the left one declines
Reflected(op) ==
  CASE op = "lt" -> "gt"
    [] op = "gt" -> "lt"
    [] op = "le" -> "ge"
    [] op = "ge" -> "le"

\* type(a).__lt__(a, b) and the like: class URL and its subclasses define
\* __eq__ and __hash__ only, so the method is object's and declines
object_richcmp(op, a, b) == Raise("NotImplemented", FALSE)

\* a < b, a <= b, a > b, a >= b: the left operand's method, then the right
\* operand's reflected one; TypeError when both decline
richcmp(op, a, b) ==
  LET r == object_richcmp(op, a, b)
      q == object_richcmp(Reflected(op), b, a)
  IN IF r.ret # "NotImplemented" THEN r
     ELSE IF q.ret # "NotImplemented" THEN q
     ELSE Raise("TypeError", FALSE)

\* an operand that is the object heap[j] itself
RefKey(j) == [type |-> "ref", val |-> <<ToString(j)>>]

\* heap[i] op heap[j]
Compare(op, i, j) ==
  /\ i \in Alive
  /\ j \in Alive
  /\ UNCHANGED limiter
  /\ last' = Call(op, i, RefKey(j), richcmp(op, heap[i], heap[j]).ret, <<>>)
  /\ UNCHANGED <<heap, closed, made>>

\* heap[i].name(key) for a name the instance has no attribute of: the lookup
\* raises before anything is called
AbsentMethod(name, i, key) ==
  /\ i \in Alive
  /\ getattr(heap[i], name) = "AttributeError"
  /\ UNCHANGED limiter
  /\ last' = Call(name, i, key, getattr(heap[i], name), <<>>)
  /\ UNCHANGED <<heap, closed, made>>

\* RequestsURL.get(params), params "None" or a dict: reads self.query when
\* params is None, and the
\* request goes to str(self.base_url); an instance has neither attribute
RequestsURL_get(u, params) ==
  IF params = "None" /\ getattr(u, "query") # "ok"
    THEN Raise(getattr(u, "query"), NoResponse)
  ELSE IF getattr(u, "base_url") # "ok"
    THEN Raise(getattr(u, "base_url"), NoResponse)
  ELSE Raise("unmodelled", NoResponse)

\* heap[i].get(params) on a RequestsURL
Get(i, params) ==
  /\ i \in Alive
  /\ heap[i].cls \in RequestsClasses
  /\ UNCHANGED limiter
  /\ last' = Call("get", i, StrKey(<<params>>), RequestsURL_get(heap[i], params).ret, <<>>)
  /\ UNCHANGED <<heap, closed, made>>

\* binding the keyword arguments of a call of with_name(self, name) or
\* with_suffix(self, suffix): a keyword that is no parameter is a TypeError,
\* raised before the body runs
bind_keywords(method, kws) ==
  IF kws \subseteq (IF method = "with_name" THEN {"name"} ELSE {"suffix"})
    THEN "ok" ELSE "TypeError"

\* heap[i].with_name(arg, inherit=True) and heap[i].with_suffix(arg, inherit=True)
WithInherit(method, i, arg) ==
  /\ i \in Alive
  /\ bind_keywords(method, {"inherit"}) # "ok"
  /\ UNCHANGED limiter
  /\ last' = Call(method, i, [type |-> "inherit", val |-> arg],
                  bind_keywords(method, {"inherit"}), <<>>)
  /\ UNCHANGED <<heap, closed, made>>

\* ------------------------------------------------------ URLPath objects
\* the members URLPath overrides with a body of raise NotImplementedError
URLPath_disabled ==
  {"match", "is_absolute", "joinpath", "relative_to", "anchor", "drive",
   "lt", "le", "gt", "ge", "as_uri"}

\* as a call on a URLPath would be if the class left the rich comparisons to
\* PurePosixPath
URLPath_call_ordered(name, p, key) ==
  IF name \in OrderOps
    THEN IF key.type \in PathTypes THEN Ok(TRUE) ELSE Raise("TypeError", p)
  ELSE IF name \in URLPath_disabled THEN Raise("NotImplementedError", p)
  ELSE IF name = "truediv" THEN Path_truediv(p, key)
  ELSE Ok(URLPath_str(p))

\* p.name(key) for a URLPath p; the operators are called by their method
\* names, p / key is truediv, and every other name here is str(p)
URLPath_call(name, p, key) ==
  IF name \in URLPath_disabled THEN Raise("NotImplementedError", p)
  ELSE IF name = "truediv" THEN Path_truediv(p, key)
  ELSE Ok(URLPath_str(p))

\* p = URLPath(s), the one path the caller makes
NewPath(s) ==
  /\ last.op = "none"
  /\ UNCHANGED limiter
  /\ last' = Call("URLPath", 0, URLPathKey(s), "ok", <<>>)
  /\ UNCHANGED <<heap, closed, made>>

\* p.name(key), of the path made last
PathCall(name, key) ==
  /\ last.op = "URLPath"
  /\ Let(URLPath_call(name, URLPath(last.key.val), key),
         LAMBDA r : last' = [Call(name, 0,
                                  [type |-> "URLPath", val |-> last.key.val, arg |-> key],
                                  r.ret, <<>>)
                               EXCEPT !.val = r.val])
  /\ UNCHANGED <<heap, closed, made, limiter>>

\* ------------------------------------------------------- Domain objects
\* d = Domain(subdomain, domain, suffix), the one Domain the caller makes
NewDomain(subdomain, domain, suffix) ==
  /\ last.op = "none"
  /\ UNCHANGED limiter
  /\ last' = Call("Domain", 0, [type |-> "Domain", val |-> Domain(subdomain, domain, suffix)], "ok", <<>>)
  /\ UNCHANGED <<heap, closed, made>>

\* d.ipv4, of the Domain made last
Ipv4 ==
  /\ last.op = "Domain"
  /\ Let(Domain_ipv4(last.key.val),
         LAMBDA r : last' = [Call("ipv4", 0, last.key, r.ret, <<>>) EXCEPT !.val = r.val])
  /\ UNCHANGED <<heap, closed, made, limiter>>

\* ----------------------------------------------------------- rate limiter
\* as the time to sleep would be if the limiter never waited
left_to_wait_none(elapsed) == 0

\* the time to sleep before calling through, given the time since the last call
left_to_wait(elapsed) == IF elapsed < MinTime THEN MinTime - elapsed ELSE 0

\* the clock advances by one tick
Tick ==
  /\ limiter.now < MaxTime
  /\ limiter' = [limiter EXCEPT !.now = @ + 1]
  /\ UNCHANGED <<heap, closed, made, last>>

\* the caller invokes the wrapped function: an early call goes to sleep for
\* the remainder of the interval, a late or a first one proceeds at once
Invoke ==
  /\ limiter.pc = "idle"
  /\ limiter.invoked < MaxCalls
  /\ limiter.now + MinTime <= MaxTime
  /\ Let(IF limiter.last_time_called = NoTime THEN 0
         ELSE left_to_wait(limiter.now - limiter.last_time_called),
         LAMBDA wait :
           limiter' = [limiter EXCEPT !.invoked = @ + 1,
                                      !.pc = IF wait > 0 THEN "sleeping" ELSE "ready",
                                      !.wake = limiter.now + wait,
                                      !.waited = Append(@, wait)])
  /\ UNCHANGED <<heap, closed, made, last>>

\* the sleep ends, no earlier than asked for
Wake ==
  /\ limiter.pc = "sleeping"
  /\ limiter.now >= limiter.wake
  /\ limiter' = [limiter EXCEPT !.pc = "ready"]
  /\ UNCHANGED <<heap, closed, made, last>>

\* the wrapped function is called
CallThrough ==
  /\ limiter.pc = "ready"
  /\ limiter' = [limiter EXCEPT !.pc = "running", !.through = Append(@, limiter.now)]
  /\ UNCHANGED <<heap, closed, made, last>>

\* the wrapped function returns 42: the timestamp is updated and the result
\* handed to the caller
Return ==
  /\ limiter.pc = "running"
  /\ limiter' = [limiter EXCEPT !.pc = "idle", !.returned = @ + 1,
                                !.last_time_called = limiter.now]
  /\ last' = [Call("rate_limited_function", 0, NoKey, "ok", <<>>) EXCEPT !.val = <<42>>]
  /\ UNCHANGED <<heap, closed, made>>

\* ---------------------------------------------------------------- inputs
InitURLs ==
  { <<>>,
    <<"h", "/", "a">>,
    <<"s", ":", "/", "/", "h", "/", "a", ".", "x", "?", "x", "#", "b">> }

\* operands division accepts
PathKeys ==
  { StrKey(<<"b">>), StrKey(<<"/", "b">>), StrKey(<<>>), StrKey(<<"/", "/", "b">>),
    PurePathKey(<<"a", "/", "b">>), URLPathKey(<<"/", "b">>),
    URLKey(<<"h", "/", "b">>), PathLikeKey(<<"/", "x">>) }

\* operands of every kind
Keys ==
  PathKeys \cup {OtherKey(ty) : ty \in OtherTypes}
    \cup {IntKey(<<"7">>), IntKey(<<"1", "0">>)}

Lefts ==
  { StrKey(<<"a">>), PurePathKey(<<"a">>), URLPathKey(<<"/", "a">>) }
    \cup {OtherKey(ty) : ty \in OtherTypes} \cup {IntKey(<<"7">>)}

Names == { <<"b">>, <<"b", ".", "x">>, <<>>, <<"a", "/", "b">> }

Suffixes == { <<".", "x">>, <<>>, <<"x">> }

PathStrs == { <<"a">> }

\* ----------------------------------------------------------------- Spec
\* derivation, sessions and destruction
Next ==
  \/ heap = <<>> /\ \E cls \in Classes, s \in InitURLs : NewFrom(cls, s)
  \/ \E i \in Ids, key \in PathKeys : Div(i, key)
  \/ \E i \in Ids : Parent(i)
  \/ \E i \in Ids : Parents(i)
  \/ \E i \in Ids, name \in Names : WithName(i, name)
  \/ \E i \in Ids, suffix \in Suffixes : WithSuffix(i, suffix)
  \/ \E i \in Ids : SetSession(i)
  \/ \E i \in Ids, s \in PathStrs : SetPath(i, s)
  \/ \E i \in Ids : Del(i)
  \/ \E i \in Ids : Str(i)
  \/ \E i \in Ids : GetDomain(i)

Spec == Init /\ [][Next]_vars

\* ---------------------------------------------------------- OperandSpec
\* division by, and of, operands of every type
OperandNext ==
  \/ heap = <<>> /\ \E cls \in Classes, s \in InitURLs : NewFrom(cls, s)
  \/ \E i \in Ids, key \in Keys : Div(i, key)
  \/ \E i \in Ids, left \in Lefts : RDiv(left, i)

OperandSpec == Init /\ [][OperandNext]_vars

\* ----------------------------------------------------------- SlumberSpec
\* SlumberURLs with constructor arguments, reassigned settings and division
Formats == {"json", "XML"}

SlumberURLs == { <<"h", "/", "a">> }

SlumberKeys == { StrKey(<<"b">>), OtherKey("float") }

SlumberNext ==
  \/ heap = <<>> /\ \E s \in SlumberURLs, format \in Formats, append_slash \in BOOLEAN :
                      NewSlumber(s, format, append_slash)
  \/ \E i \in Ids, name \in Settings : SetAttr(i, name)
  \/ \E i \in Ids, key \in SlumberKeys : Div(i, key)

SlumberSpec == Init /\ [][SlumberNext]_vars

\* ----------------------------------------------------------- RequestSpec
\* requests on a SlumberURL, the server answering with every kind of status
StatusCodes == {100, 200, 204, 301, 399, 400, 404, 418, 499, 500, 503, 599, 600}

Responses == {[status_code |-> c, content |-> "body"] : c \in StatusCodes}

RequestNext ==
  \/ heap = <<>> /\ \E s \in SlumberURLs \cup { <<"h", "/">>, <<"h">> },
                         format \in Formats, append_slash \in BOOLEAN :
                      NewSlumber(s, format, append_slash)
  \/ \E i \in Ids, method \in RequestMethods \cup SessionMethods, resp \in Responses :
       Request(i, method, resp)

RequestSpec == Init /\ [][RequestNext]_vars

\* ------------------------------------------------------------ PartsSpec
\* from_parts on every short path, and one derivation from its result
PartsStrings == Strings(MaxLen)

PartsKeys == { StrKey(<<"b">>), StrKey(<<"/", "/", "b">>), StrKey(<<>>) }

PartsNext ==
  \/ heap = <<>> /\ \E cls \in Classes, path \in PartsStrings :
                      FromParts(cls, <<"s">>, <<"h">>, path)
  \/ Len(heap) = 1 /\ \E key \in PartsKeys : Div(1, key)
  \/ Len(heap) = 1 /\ Parent(1)
  \/ Len(heap) = 1 /\ Parents(1)
  \/ Len(heap) = 1 /\ \E name \in Names : WithName(1, name)
  \/ Len(heap) = 1 /\ \E suffix \in Suffixes : WithSuffix(1, suffix)

PartsSpec == Init /\ [][PartsNext]_vars

\* -------------------------------------------------------------- ApiSpec
\* two URLs and a child of one of them; comparisons and the calls of
\* relative_to, strict_compare and joinurl between them
ApiURLs ==
  { <<"h", "/", "a">>, <<"g", "/", "a">>, <<"h", "/", "a", "?", "x", "#", "b">> }

ApiKeys ==
  { StrKey(<<"b">>), StrKey(<<"b", "?", "x">>), URLPathKey(<<"a">>) }

ApiMethods == {"relative_to", "strict_compare", "joinurl"}

ApiNext ==
  \/ Len(heap) < 2 /\ \E cls \in Classes, s \in ApiURLs : NewFrom(cls, s)
  \/ \E i \in Ids, key \in ApiKeys : Div(i, key)
  \/ \E op \in OrderOps, i \in Ids, j \in Ids : Compare(op, i, j)
  \/ \E name \in ApiMethods, i \in Ids, j \in Ids : AbsentMethod(name, i, RefKey(j))
  \/ \E name \in ApiMethods, i \in Ids, key \in ApiKeys : AbsentMethod(name, i, key)
  \/ \E i \in Ids, params \in {"None", "dict"} : Get(i, params)
  \/ \E i \in Ids : WithInherit("with_name", i, <<"b">>)
  \/ \E i \in Ids : WithInherit("with_suffix", i, <<".", "x">>)

ApiSpec == Init /\ [][ApiNext]_vars

\* ----------------------------------------------------------- DomainSpec
\* Domain objects of up to MaxOctets dot-separated labels, and their ipv4
DomainNext ==
  \/ last.op = "none"
       /\ \E subdomain \in { <<>>, <<"o", "r", "g">> }, suffix \in { <<>>, <<"o", "r", "g">> },
             domain \in { JoinDot(parts) \o tail :
                            parts \in UNION {[1..k ->
                                                { <<"0">>, <<"1">>, <<"0", "1">>,
                                                  <<"2", "5", "5">>, <<"2", "5", "6">> }]
                                               : k \in 3..MaxOctets},
                            tail \in { <<>>, <<"\n">>, <<"a">> } }
                          \cup { <<>>, <<"p", "y">> } :
            NewDomain(subdomain, domain, suffix)
  \/ Ipv4

DomainSpec == Init /\ [][DomainNext]_vars

\* ------------------------------------------------------------- PathSpec
\* a URLPath built from every short string, and one call on it
PathNext ==
  \/ last.op = "none" /\ \E s \in Strings(MaxLen) : NewPath(s)
  \/ \E name \in URLPath_disabled \cup {"truediv", "str"}, key \in { StrKey(<<"b">>), URLPathKey(<<"/", "b">>), PurePathKey(<<"a">>),
                 OtherKey("float"), NoKey } :
       PathCall(name, key)

PathSpec == Init /\ [][PathNext]_vars

\* ------------------------------------------------------------- RateSpec
\* invocations of one rate-limited function while the clock runs; time
\* passes, a sleep ends and the wrapped function returns
RateNext ==
  \/ Tick
  \/ Invoke
  \/ Wake
  \/ CallThrough
  \/ Return

RateSpec ==
  /\ Init
  /\ [][RateNext]_vars
  /\ WF_vars(Tick)
  /\ WF_vars(Wake)
  /\ WF_vars(CallThrough)
  /\ WF_vars(Return)

\* ------------------------------------------------------------ ParseSpec
\* construction from every short string, rendering, and pairs of URLs
FirstStrings == Strings(MaxLen)
SecondStrings == Strings(MaxLen2)

ParseNext ==
  \/ heap = <<>> /\ \E cls \in Classes, s \in FirstStrings : NewFrom(cls, s)
  \/ Len(heap) = 1 /\ \E cls \in Classes, s \in SecondStrings : NewFrom(cls, s)
  \/ Len(heap) = 1 /\ Reparse(1)
  \/ Len(heap) = 1 /\ Str(1)
  \/ Len(heap) = 1 /\ \E name \in Names : WithName(1, name)

ParseSpec == Init /\ [][ParseNext]_vars

\* ---------------------------------------------------------------- claims

\* C1: a == b holds exactly when scheme, netloc and path agree, whatever the
\* classes, the sessions and the queries or fragments the URLs were built with
C1_LooseEquality ==
  \A i, j \in Ids :
    URL_eq(heap[i], heap[j]) <=>
      /\ heap[i].scheme = heap[j].scheme
      /\ heap[i].netloc = heap[j].netloc
      /\ URLPath_str(heap[i].path) = URLPath_str(heap[j].path)

\* two equal URLs of different classes, with different sessions, one of them
\* built from a string with a query or fragment
C1_Witness ==
  \E i, j \in Ids :
    /\ URL_eq(heap[i], heap[j])
    /\ heap[i].cls = "RequestsURL" /\ heap[j].cls = "SlumberURL"
    /\ SessionOf(heap[i]) # SessionOf(heap[j])
    /\ ~made[i].qf /\ made[j].qf
    /\ heap[i].netloc # <<>>

\* C2: equal URLs have equal hashes, whatever their classes, sessions and the
\* queries or fragments they were built with
C2_HashConsistent ==
  \A i, j \in Ids :
    URL_eq(heap[i], heap[j]) => URL_hash(heap[i]) = URL_hash(heap[j])

C2_Witness ==
  \E i, j \in Ids :
    /\ i # j
    /\ URL_eq(heap[i], heap[j])
    /\ URL_hash(heap[i]) = URL_hash(heap[j])
    /\ heap[i].cls # heap[j].cls
    /\ SessionOf(heap[i]) # SessionOf(heap[j])
    /\ made[i].qf # made[j].qf

\* C3: a URL built from a string without a scheme (so its scheme is empty)
\* renders to a string that does not begin with "//" and that parses back to
\* an equal URL
C3_RoundTrip ==
  (last.op = "reparse" /\ heap[1].cls = "URL" /\ heap[1].scheme = <<>>) =>
    /\ URL_eq(heap[2], heap[1])
    /\ ~StartsWith(URL_str(heap[1]), <<"/", "/">>)

\* C4: u / c has u's scheme and netloc; its path is rooted and holds u's
\* segments followed by those of c when c is relative, and the segments of c
\* alone when c is absolute
C4_DivisionBuildsChild ==
  (last.op = "truediv" /\ last.ret = "ok") =>
    LET u == heap[last.self]
        c == heap[last.new[1]]
        k == parse_arg(last.key).val
    IN /\ c.scheme = u.scheme
       /\ c.netloc = u.netloc
       /\ c.path.root = <<"/">>
       /\ c.path.segs = IF k.root # <<>> THEN k.segs ELSE u.path.segs \o k.segs

\* an absolute component replaced a non-empty path
C4_Witness ==
  /\ last.op = "truediv" /\ last.ret = "ok"
  /\ parse_arg(last.key).val.root # <<>>
  /\ heap[last.self].path.segs # <<>>
  /\ heap[last.new[1]].path.segs = parse_arg(last.key).val.segs
  /\ heap[last.self].scheme # <<>>

\* C5: the child of a URL built with a query or fragment has a .query and a
\* .fragment of its own (empty and None)
C5_DivisionResetsQuery ==
  (last.op = "truediv" /\ last.ret = "ok" /\ made[last.self].qf) =>
    /\ getattr(heap[last.new[1]], "query") = "ok"
    /\ getattr(heap[last.new[1]], "fragment") = "ok"

\* C6: dividing by an int gives a URL of the receiver's class whose last part
\* is str(n)
C6_DivisionByInt ==
  (last.op = "truediv" /\ last.key.type = "int") =>
    /\ last.ret = "ok"
    /\ heap[last.new[1]].cls = heap[last.self].cls
    /\ Path_name(heap[last.new[1]].path) = last.key.val

\* C7 as stated: an unsupported right operand, and any non-URL left operand,
\* raises TypeError
C7_Original ==
  /\ (last.op = "truediv"
        /\ last.key.type \in {"float", "list", "tuple", "dict", "set", "function", "class"})
       => (last.ret = "TypeError" /\ last.new = <<>>)
  /\ last.op = "rtruediv" => (last.ret = "TypeError" /\ last.new = <<>>)

\* C7 as amended: an unsupported right operand, and any left operand that is
\* neither a URL nor a path, raises TypeError; a path on the left takes the
\* URL as an os.PathLike and gives a path; no URL is produced either way
C7_DivisionTypeError ==
  /\ (last.op = "truediv"
        /\ last.key.type \in {"float", "list", "tuple", "dict", "set", "function", "class"})
       => (last.ret = "TypeError" /\ last.new = <<>>)
  /\ (last.op = "rtruediv" /\ last.key.type \notin PathTypes)
       => (last.ret = "TypeError" /\ last.new = <<>>)
  /\ (last.op = "rtruediv" /\ last.key.type \in PathTypes)
       => (last.ret = "ok" /\ last.new = <<>>)

\* a derived SlumberURL was divided by a float
C7_Witness ==
  /\ last.op = "truediv" /\ last.key.type = "float" /\ last.ret = "TypeError"
  /\ heap[last.self].cls = "SlumberURL"
  /\ made[last.self].by = "truediv"

C9_SessionShared ==
  (last.op = "truediv" /\ last.ret = "ok" /\ heap[last.self].cls \in RequestsClasses) =>
    /\ heap[last.new[1]].session = heap[last.self].session
    /\ heap[last.new[1]].session # NoSession

\* a chain of two divisions from a URL whose session the caller replaced
C9_Witness ==
  /\ Len(heap) = 3
  /\ heap[1].cls = "RequestsURL"
  /\ heap[1].session = 2
  /\ made[2].by = "truediv" /\ made[3].by = "truediv"
  /\ last.op = "truediv" /\ last.self = 2
  /\ heap[3].session = heap[1].session

\* C10: the parent, and every element of parents, of a RequestsURL holds the
\* session the URL holds
C10_ParentSharesSession ==
  (last.op \in {"parent", "parents"} /\ heap[last.self].cls \in RequestsClasses) =>
    \A k \in 1..Len(last.new) : heap[last.new[k]].session = heap[last.self].session

\* C11: no session that a live URL still holds has had close() invoked on it
C11_NoCloseWhileReferenced ==
  \A i \in Alive : SessionOf(heap[i]) \notin closed

\* C12: the child of a SlumberURL has a _store equal to its parent's, with
\* the very same session and serializer, and its parent's timeout,
\* allow_redirects, proxies, verify and cert
C12_SettingsInherited ==
  (last.op = "truediv" /\ last.ret = "ok" /\ heap[last.self].cls = "SlumberURL") =>
    /\ heap[last.new[1]].store = heap[last.self].store
    /\ \A name \in Settings :
         Setting(heap[last.new[1]], name) = Setting(heap[last.self], name)

\* a chain of two divisions from a SlumberURL built with its own format and
\* append_slash, after settings were reassigned on the root and on its child
C12_Witness ==
  /\ Len(heap) = 3
  /\ last.op = "truediv" /\ last.ret = "ok" /\ last.self = 2
  /\ made[2].by = "truediv"
  /\ heap[1].store.format = "XML" /\ ~heap[1].store.append_slash
  /\ heap[3].store = heap[1].store
  /\ heap[1].timeout = "42" /\ heap[2].timeout = "42" /\ heap[3].timeout = "42"
  /\ heap[1].cert = "None" /\ heap[2].cert = "cert" /\ heap[3].cert = "cert"

\* C13 as stated: every request of a SlumberURL raises HttpClientError on
\* 400-499 (HttpNotFoundError exactly on 404) and HttpServerError on 500-599,
\* the exception carrying the response and its content, and raises nothing on
\* any other status
C13_Original ==
  (last.op \in RequestMethods \cup SessionMethods) =>
    LET sc == last.key.val.status_code
    IN /\ (400 <= sc /\ sc <= 499) =>
            /\ "HttpClientError" \in ExcBases(last.ret)
            /\ ("HttpNotFoundError" \in ExcBases(last.ret)) <=> (sc = 404)
       /\ (500 <= sc /\ sc <= 599) => last.ret = "HttpServerError"
       /\ (sc < 400 \/ sc > 599) => last.ret = "ok"
       /\ last.ret # "ok" =>
            /\ last.exc.response = last.key.val
            /\ last.exc.content = last.key.val.content

\* C13 as amended: get, post, patch, put and delete translate the status that
\* way, and on any other status _request returns the response (kept in
\* self._); options and head raise nothing whatever the status
C13_StatusTranslated ==
  /\ (last.op \in RequestMethods) =>
       LET sc == last.key.val.status_code
       IN /\ (400 <= sc /\ sc <= 499) =>
               /\ "HttpClientError" \in ExcBases(last.ret)
               /\ ("HttpNotFoundError" \in ExcBases(last.ret)) <=> (sc = 404)
          /\ (500 <= sc /\ sc <= 599) => last.ret = "HttpServerError"
          /\ (sc < 400 \/ sc > 599) =>
               (last.ret = "ok" /\ heap[last.self].last_resp = last.key.val)
          /\ last.ret # "ok" =>
               /\ last.exc.response = last.key.val
               /\ last.exc.content = last.key.val.content
  /\ (last.op \in SessionMethods) => (last.ret = "ok" /\ last.exc = NoExc)

\* a 404 raised HttpNotFoundError carrying the response, after an earlier
\* request had succeeded
C13_Witness ==
  /\ last.op = "get" /\ last.key.val.status_code = 404
  /\ last.ret = "HttpNotFoundError"
  /\ last.exc.response.status_code = 404 /\ last.exc.content = "body"
  /\ heap[last.self].last_resp.status_code = 200

\* C14 as stated: from_parts keeps a path that starts with "/" unchanged and
\* prepends "/" to any other, and every URL made by from_parts or by a
\* derivation has a path whose root is "/"
C14_Original ==
  /\ \A i \in Ids : made[i].by # "init" => heap[i].path.root = <<"/">>
  /\ last.op = "from_parts" =>
       heap[last.new[1]].path =
         IF StartsWith(last.key.val, <<"/">>) THEN URLPath(last.key.val)
         ELSE URLPath(<<"/">> \o last.key.val)

\* C14 as amended: from_parts keeps a path whose root is "/" unchanged and
\* gives every other path (a relative one, the empty one, and one with the
\* two-slash root "//") the root "/" in front of the same segments; every URL
\* made by from_parts or by a derivation has a path whose root is "/"
C14_RootAbsolute ==
  /\ \A i \in Ids : made[i].by # "init" => heap[i].path.root = <<"/">>
  /\ last.op = "from_parts" =>
       /\ URLPath(last.key.val).root = <<"/">> =>
            heap[last.new[1]].path = URLPath(last.key.val)
       /\ heap[last.new[1]].path.segs = URLPath(last.key.val).segs

\* from_parts was given a relative path, and a derivation followed
C14_Witness ==
  /\ Len(heap) = 2
  /\ made[1].by = "from_parts" /\ made[2].by = "parent"
  /\ heap[1].path = [root |-> <<"/">>, segs |-> <<<<"a">>, <<"a">>>>]
  /\ heap[2].path = [root |-> <<"/">>, segs |-> <<<<"a">>>>]

\* C15: a division, parent, parents, with_name, with_suffix, domain or str
\* leaves scheme, netloc and path of every existing URL as they were, and
\* what it returns are objects that did not exist before
C15_NoMutation ==
  [][(last'.op \in {"truediv", "parent", "parents", "with_name", "with_suffix",
                    "domain", "str"}) =>
       /\ Len(heap') >= Len(heap)
       /\ \A i \in Ids : /\ heap'[i].scheme = heap[i].scheme
                         /\ heap'[i].netloc = heap[i].netloc
                         /\ heap'[i].path = heap[i].path
       /\ \A k \in 1..Len(last'.new) : last'.new[k] \notin Ids]_vars

\* a URL whose path the caller had overwritten was divided, and the child's
\* path differs from the receiver's
C15_Witness ==
  /\ last.op = "truediv" /\ last.ret = "ok"
  /\ made[last.self].by = "init"
  /\ heap[last.self].path.root = <<>> /\ heap[last.self].path.segs = <<<<"a">>>>
  /\ heap[last.new[1]].path.root = <<"/">>
  /\ Len(heap[last.new[1]].path.segs) = 2

\* C16: the operators <, <=, > and >= between two URLs, of the same class or of
\* different URL classes, give an answer (the one of the lexicographic order
\* on scheme, subdomain, domain, suffix, port and path segments) rather than
\* raise
C16_Ordering ==
  (last.op \in OrderOps /\ last.self \in Ids) => last.ret = "ok"

\* C17: v.relative_to(u) returns a path whenever v's path extends u's and the
\* two have the same netloc, as (u / x).relative_to(u) does, also after the
\* caller has overwritten a path with a relative one
C17_RelativeToInvertsDivision ==
  \A j \in Ids :
    (/\ last.op = "relative_to"
     /\ last.key = RefKey(j)
     /\ heap[last.self].netloc = heap[j].netloc
     /\ Len(heap[j].path.segs) <= Len(heap[last.self].path.segs)
     /\ SubSeq(heap[last.self].path.segs, 1, Len(heap[j].path.segs)) = heap[j].path.segs)
      => last.ret = "ok"

\* C18: relative_to raises ValueError when its operand is a URLPath that is
\* not absolute, and when the receiver's path does not begin with the path of
\* the URL it is given
C18_RelativeToValueError ==
  /\ (last.op = "relative_to" /\ last.key = URLPathKey(<<"a">>)) => last.ret = "ValueError"
  /\ \A j \in Ids :
       (/\ last.op = "relative_to"
        /\ last.key = RefKey(j)
        /\ Len(heap[j].path.segs) > Len(heap[last.self].path.segs))
         => last.ret = "ValueError"

\* C19: a.strict_compare(b) answers true or false: true exactly when a == b
\* and the queries and the fragments are equal
C19_StrictCompare ==
  (last.op = "strict_compare" /\ last.key.type = "ref") => last.ret = "ok"

\* C20: joinurl(c1, ..., cn) returns one new URL, the receiver's path with the
\* components appended and the query and fragment of cn
C20_JoinURL ==
  (last.op = "joinurl" /\ last.key.type # "ref") =>
    (last.ret = "ok" /\ Len(last.new) = 1)

\* C21: reading ipv4 of a Domain never raises, and gives an address only when
\* subdomain and suffix are both empty; every other Domain has ipv4 None
C21_Ipv4 ==
  last.op = "ipv4" =>
    /\ last.ret = "ok"
    /\ last.val # NoAddress =>
         (last.key.val.subdomain = <<>> /\ last.key.val.suffix = <<>>)

\* C22: the string form of a TrailingRequestsURL ends with one '/', and never
\* with '//', whatever string the URL was constructed from
C22_OneTrailingSlash ==
  (last.op = "str" /\ heap[last.self].cls = "TrailingRequestsURL") =>
    /\ EndsWith(last.key.val, <<"/">>)
    /\ ~EndsWith(last.key.val, <<"/", "/">>)

\* C23: get() on a RequestsURL sends a request (to the URL's base form, with
\* the URL's own query as params when none are given) and returns its response
C23_GetDefaultParams ==
  (last.op = "get" /\ heap[last.self].cls \in RequestsClasses) => last.ret = "ok"

\* C24: with_name on a URL whose path has an empty name raises ValueError, the
\* message names that path (URLPath('') for a URL with no path), and the call
\* returns no URL
C24_WithNameEmpty ==
  (last.op = "with_name" /\ Path_name(heap[last.self].path) = <<>>) =>
    /\ last.ret = "ValueError"
    /\ last.new = <<>>
    /\ Len(heap) = 1
    /\ last.val.text = "has an empty name"
    /\ last.val.repr = URLPath_repr(heap[last.self].path)
    /\ heap[last.self].path = EmptyPath =>
         last.val.repr = <<"URLPath", "(", "'", "'", ")">>

\* with_name("b") on a URL with a host and no path
C24_Witness ==
  /\ last.op = "with_name"
  /\ last.key = StrKey(<<"b">>)
  /\ last.ret = "ValueError"
  /\ heap[last.self].netloc = <<"a">>
  /\ heap[last.self].path = EmptyPath
  /\ last.val.repr = <<"URLPath", "(", "'", "'", ")">>

\* C25: with_name and with_suffix called with inherit=True return one new
\* URL (the renamed URL with the receiver's query and fragment)
C25_Inherit ==
  (last.op \in {"with_name", "with_suffix"} /\ last.key.type = "inherit") =>
    (last.ret = "ok" /\ Len(last.new) = 1)

\* C26: is_absolute() of a URLPath answers, and answers True exactly when the
\* path's root is '/'
C26_IsAbsolute ==
  (last.op = "is_absolute" /\ last.key.type = "URLPath") =>
    /\ last.ret = "ok"
    /\ last.val = (URLPath(last.key.val).root = <<"/">>)

\* C27: match, as_uri and the comparisons <, <=, >, >= of a URLPath raise
\* NotImplementedError, whatever the path and whatever the argument
C27_Disabled ==
  (last.op \in {"match", "as_uri"} \cup OrderOps /\ last.key.type = "URLPath") =>
    /\ last.ret = "NotImplementedError"
    /\ last.ret \notin {"ValueError", "TypeError"}

\* URLPath('/a') < 1.0
C27_Witness ==
  /\ last.op = "lt"
  /\ last.key.type = "URLPath"
  /\ last.key.val = <<"/", "a">>
  /\ last.key.arg = OtherKey("float")
  /\ last.ret = "NotImplementedError"

\* C29 as stated: .parent of a division of a rooted URL by one relative
\* segment equals that URL, and .parents of every URL is a sequence of URLs
\* with its scheme and netloc that ends with the URL whose path is '/'
C29_Original ==
  /\ [][(/\ last.op = "truediv" /\ last.ret = "ok" /\ last.key.type = "str"
         /\ parse_parts(last.key.val).root = <<>>
         /\ Len(parse_parts(last.key.val).segs) = 1
         /\ heap[last.self].path.root = <<"/">>
         /\ last'.op = "parent" /\ last'.self = last.new[1])
          => URL_eq(heap'[last'.new[1]], heap[last.self])]_vars
  /\ [](last.op = "parents" =>
          /\ \A k \in 1..Len(last.new) :
               /\ heap[last.new[k]].scheme = heap[last.self].scheme
               /\ heap[last.new[k]].netloc = heap[last.self].netloc
          /\ last.new # <<>>
          /\ heap[last.new[Len(last.new)]].path = URLPath(<<"/">>))

\* C29: .parent of a division of a rooted URL by one relative segment equals
\* that URL; .parents has one URL per segment of the path, each with the
\* receiver's scheme and netloc, and when the path has a segment the sequence
\* ends with the URL whose path is '/'
C29_ParentInvertsDivision ==
  /\ [][(/\ last.op = "truediv" /\ last.ret = "ok" /\ last.key.type = "str"
         /\ parse_parts(last.key.val).root = <<>>
         /\ Len(parse_parts(last.key.val).segs) = 1
         /\ heap[last.self].path.root = <<"/">>
         /\ last'.op = "parent" /\ last'.self = last.new[1])
          => URL_eq(heap'[last'.new[1]], heap[last.self])]_vars
  /\ [](last.op = "parents" =>
          /\ \A k \in 1..Len(last.new) :
               /\ heap[last.new[k]].scheme = heap[last.self].scheme
               /\ heap[last.new[k]].netloc = heap[last.self].netloc
          /\ Len(last.new) = Len(heap[last.self].path.segs)
          /\ last.new # <<>> =>
               heap[last.new[Len(last.new)]].path = URLPath(<<"/">>))

\* u / "b" and then .parent of the result, for a rooted u whose path has a
\* segment
C29_Witness ==
  /\ Len(heap) = 3
  /\ made[2].by = "truediv"
  /\ made[3].by = "parent"
  /\ last.op = "parent"
  /\ last.self = 2
  /\ heap[1].path = URLPath(<<"/", "a">>)
  /\ heap[2].path = URLPath(<<"/", "a", "/", "b">>)
  /\ URL_eq(heap[3], heap[1])

\* C30 as stated: every verb of a SlumberURL, HEAD and OPTIONS included, is
\* sent to the string form with one '/' appended when append_slash is set and
\* the string does not end in '/', and to the string form itself otherwise
C30_Original ==
  (last.op \in RequestMethods \cup SessionMethods /\ last.key.type = "response") =>
    last.val = IF heap[last.self].store.append_slash
                    /\ ~EndsWith(URL_str(heap[last.self]), <<"/">>)
                 THEN URL_str(heap[last.self]) \o <<"/">>
                 ELSE URL_str(heap[last.self])

\* C30: get, post, put, patch and delete are sent to one address: with
\* append_slash the string form ending in exactly the slashes it had, or one
\* '/' when it had none, and without append_slash the string form itself;
\* head and options are sent to the string form itself in both cases
C30_AppendSlash ==
  /\ (last.op \in RequestMethods /\ last.key.type = "response") =>
       /\ heap[last.self].store.append_slash =>
            /\ EndsWith(last.val, <<"/">>)
            /\ \/ last.val = URL_str(heap[last.self])
               \/ /\ last.val = URL_str(heap[last.self]) \o <<"/">>
                  /\ ~EndsWith(URL_str(heap[last.self]), <<"/">>)
       /\ ~heap[last.self].store.append_slash => last.val = URL_str(heap[last.self])
  /\ (last.op \in SessionMethods /\ last.key.type = "response") =>
       last.val = URL_str(heap[last.self])

\* a POST on SlumberURL('h/a') with append_slash goes to 'h/a/'
C30_Witness ==
  /\ last.op = "post"
  /\ last.key.type = "response"
  /\ heap[last.self].store.append_slash
  /\ URL_str(heap[last.self]) = <<"h", "/", "a">>
  /\ last.val = <<"h", "/", "a", "/">>

\* C28: every invocation of the rate-limited function calls through once and
\* returns the wrapped result; two consecutive call-throughs are at least
\* MinTime apart; and after every call the timestamp is that of the call's end
C28_RateLimit ==
  /\ [](/\ \A k \in 1..(Len(limiter.through) - 1) :
             limiter.through[k + 1] - limiter.through[k] >= MinTime
        /\ limiter.returned <= Len(limiter.through)
        /\ Len(limiter.through) <= limiter.invoked
        /\ limiter.invoked <= limiter.returned + 1
        /\ limiter.pc = "idle" =>
             /\ limiter.returned = limiter.invoked
             /\ limiter.returned > 0 =>
                  /\ limiter.last_time_called >= limiter.through[Len(limiter.through)]
                  /\ last.val = <<42>>)
  /\ \A n \in 1..MaxCalls :
       (limiter.invoked = n) ~> (limiter.returned = n /\ Len(limiter.through) = n)

\* three calls returned: the first called through at once, the second was
\* early, slept two ticks and called through at 3, the third was late and
\* called through at 6 without sleeping
C28_Witness ==
  /\ limiter.returned = 3
  /\ limiter.pc = "idle"
  /\ limiter.through = <<0, 3, 6>>
  /\ limiter.waited = <<0, 2, 0>>
  /\ limiter.last_time_called = 7
  /\ last.val = <<42>>

====
